---- MODULE Spec2Model ----
(***************************************************************************)
(* Model of the autopilot-cost-calculator: the lower-limit normaliser, the *)
(* compute-class classifier, the pricing engine, the price-catalog routing *)
(* and the aggregation of workload costs into node and cluster totals.     *)
(*                                                                         *)
(* Units.  Resource amounts are the int64 values of the code (mCPU, MiB).  *)
(* A unit price is an integer number of nano-dollars, the resolution of    *)
(* the billing catalog (units * 10^9 + nanos * displayQuantity).  A cost   *)
(* is exact: a record [hi, lo] standing for hi * 10^6 + lo pico-dollars    *)
(* with 0 <= lo < 10^6, because price * amount / 1000 dollars is           *)
(* price * amount pico-dollars.  The float64 rounding of the code (about   *)
(* 1e-16 relative) is not modelled.                                        *)
(***************************************************************************)
EXTENDS Integers, Sequences, FiniteSets, TLC

VARIABLES
    pc,               \* position of the program / of the function under test
    args,             \* arguments of the function under test
    ret,              \* its return value (and whether it logged a warning)
    catalog,          \* pricingInfo.Skus, the SKUs of the billing catalog
    pricing,          \* ap_pricing
    nodes,            \* map[string]Node
    pods,             \* podMetricsList.Items with each pod's Spec.NodeName
    idx,              \* number of pods PopulateWorkloads has processed
    workloads,        \* the []Workload PopulateWorkloads builds
    calls,            \* the DecideComputeClass and CalculatePricing calls so far
    visited,          \* nodes DisplayWorkloadTable has ranged over
    total_cost,       \* DisplayWorkloadTable's total_cost
    total_cost_spot,  \* DisplayWorkloadTable's total_cost_spot
    rows              \* the three total rows handed to strconv.FormatFloat

vars == <<pc, args, ret, catalog, pricing, nodes, pods, idx, workloads, calls,
          visited, total_cost, total_cost_spot, rows>>

None == "none"

-----------------------------------------------------------------------------
(* Exact money arithmetic.                                                 *)

Zero == [hi |-> 0, lo |-> 0]

\* a + b
MAdd(a, b) ==
    LET lo == a.lo + b.lo
    IN  [hi |-> a.hi + b.hi + lo \div 1000000, lo |-> lo % 1000000]

\* k * a for a small integer k >= 0
MScale(k, a) ==
    LET lo == k * a.lo
    IN  [hi |-> k * a.hi + lo \div 1000000, lo |-> lo % 1000000]

\* price * float64(amount) / 1000: price in nano-dollars per unit, amount in
\* thousandths of a unit; the product is in pico-dollars (schoolbook
\* multiplication in base 1000 to stay within TLC's integers).
Term(price, amount) ==
    LET ph  == price \div 1000
        pl  == price % 1000
        ah  == amount \div 1000
        al  == amount % 1000
        mid == ph * al + pl * ah
        low == (mid % 1000) * 1000 + pl * al
    IN  [hi |-> ph * ah + mid \div 1000 + low \div 1000000, lo |-> low % 1000000]

\* |a - b| <= tol pico-dollars, for tol < 10^6
MWithin(a, b, tol) ==
    \/ a.hi = b.hi /\ a.lo - b.lo <= tol /\ b.lo - a.lo <= tol
    \/ a.hi = b.hi + 1 /\ a.lo + 1000000 - b.lo <= tol
    \/ b.hi = a.hi + 1 /\ b.lo + 1000000 - a.lo <= tol

\* a sum folded left to right, as the code accumulates it
RECURSIVE MSum(_)
MSum(s) == IF s = <<>> THEN Zero ELSE MAdd(MSum(SubSeq(s, 1, Len(s) - 1)), s[Len(s)])

-----------------------------------------------------------------------------
(* Constants of the program.                                               *)

CLUSTER_FEE == [hi |-> 100000, lo |-> 0]      \* 0.1 dollars
ARM_TYPE_PREFIX == "t2a-"
ONE_YEAR_DISCOUNT == 80                       \* 0.8, in hundredths
THREE_YEAR_DISCOUNT == 55                     \* 0.55, in hundredths

COMPUTE_CLASS_REGULAR == "Regular"
COMPUTE_CLASS_BALANCED == "Balanced"
COMPUTE_CLASS_SCALEOUT == "ScaleOut"
COMPUTE_CLASS_SCALEOUT_ARM == "ScaleOutArm"

ComputeClass ==
    {COMPUTE_CLASS_REGULAR, COMPUTE_CLASS_BALANCED, COMPUTE_CLASS_SCALEOUT,
     COMPUTE_CLASS_SCALEOUT_ARM}

-----------------------------------------------------------------------------
(* ValidateLowerLimits                                                     *)

\* mutant: the memory floor is compared with the CPU floor
ValidateLowerLimits_WrongFloor(mCPU, memory, storage) ==
    [mCPU    |-> IF mCPU < 250 THEN 250 ELSE mCPU,
     memory  |-> IF memory < 250 THEN 500 ELSE memory,
     storage |-> IF storage < 10 THEN 10 ELSE storage]

ValidateLowerLimits(mCPU, memory, storage) ==
    [mCPU    |-> IF mCPU < 250 THEN 250 ELSE mCPU,
     memory  |-> IF memory < 500 THEN 500 ELSE memory,
     storage |-> IF storage < 10 THEN 10 ELSE storage]

-----------------------------------------------------------------------------
(* DecideComputeClass                                                      *)

\* math.Ceil(float64(memory) / float64(mCPU)).  For mCPU = 0 the quotient is
\* +Inf, -Inf or NaN; NoRatio stands for the three: it is none of the values
\* the function compares ratio with, and it lies in none of its ranges.
NoRatio == [finite |-> FALSE]

Ratio(memory, mCPU) ==
    IF mCPU = 0 THEN NoRatio
    ELSE IF mCPU > 0 THEN [finite |-> TRUE, v |-> -((-memory) \div mCPU)]
    ELSE [finite |-> TRUE, v |-> -(memory \div (-mCPU))]

\* ratio == k
RatioIs(ratio, k) == ratio.finite /\ ratio.v = k

\* ratio >= lo && ratio <= hi2 / 2 (the upper bound is given doubled: 6.5 is 13)
RatioIn(ratio, lo, hi2) == ratio.finite /\ ratio.v >= lo /\ 2 * ratio.v <= hi2

WARN_ARM_RANGE == "arm64 out of accepted range"
WARN_NO_CLASS == "no matching compute class"

\* mutant: the Scale-Out rule is tried before the Regular rule
DecideComputeClass_ScaleOutFirst(mCPU, memory, arm64) ==
    LET ratio == Ratio(memory, mCPU)
    IN  IF arm64
        THEN [class |-> COMPUTE_CLASS_SCALEOUT_ARM,
              warn  |-> IF ~RatioIs(ratio, 4) \/ mCPU > 43000 \/ memory > 172000
                        THEN WARN_ARM_RANGE ELSE None]
        ELSE IF RatioIs(ratio, 4) /\ mCPU <= 54000 /\ memory <= 216000
        THEN [class |-> COMPUTE_CLASS_SCALEOUT, warn |-> None]
        ELSE IF RatioIn(ratio, 1, 13) /\ mCPU <= 30000 /\ memory <= 110000
        THEN [class |-> COMPUTE_CLASS_REGULAR, warn |-> None]
        ELSE IF RatioIn(ratio, 1, 16) /\ (mCPU > 30000 \/ memory > 110000)
        THEN [class |-> COMPUTE_CLASS_BALANCED, warn |-> None]
        ELSE [class |-> COMPUTE_CLASS_REGULAR, warn |-> WARN_NO_CLASS]

\* mutant: the arm64 envelope is tested against the ScaleOut limits
DecideComputeClass_ArmLimits(mCPU, memory, arm64) ==
    LET ratio == Ratio(memory, mCPU)
    IN  IF arm64
        THEN [class |-> COMPUTE_CLASS_SCALEOUT_ARM,
              warn  |-> IF ~RatioIs(ratio, 4) \/ mCPU > 54000 \/ memory > 216000
                        THEN WARN_ARM_RANGE ELSE None]
        ELSE IF RatioIn(ratio, 1, 13) /\ mCPU <= 30000 /\ memory <= 110000
        THEN [class |-> COMPUTE_CLASS_REGULAR, warn |-> None]
        ELSE IF RatioIs(ratio, 4) /\ mCPU <= 54000 /\ memory <= 216000
        THEN [class |-> COMPUTE_CLASS_SCALEOUT, warn |-> None]
        ELSE IF RatioIn(ratio, 1, 16) /\ (mCPU > 30000 \/ memory > 110000)
        THEN [class |-> COMPUTE_CLASS_BALANCED, warn |-> None]
        ELSE [class |-> COMPUTE_CLASS_REGULAR, warn |-> WARN_NO_CLASS]

\* The workload name only appears in the log lines and is left out.  The
\* result is the returned class and the warning logged on the way, if any.
DecideComputeClass(mCPU, memory, arm64) ==
    LET ratio == Ratio(memory, mCPU)
    IN  IF arm64
        THEN [class |-> COMPUTE_CLASS_SCALEOUT_ARM,
              warn  |-> IF ~RatioIs(ratio, 4) \/ mCPU > 43000 \/ memory > 172000
                        THEN WARN_ARM_RANGE ELSE None]
        ELSE IF RatioIn(ratio, 1, 13) /\ mCPU <= 30000 /\ memory <= 110000
        THEN [class |-> COMPUTE_CLASS_REGULAR, warn |-> None]
        ELSE IF RatioIs(ratio, 4) /\ mCPU <= 54000 /\ memory <= 216000
        THEN [class |-> COMPUTE_CLASS_SCALEOUT, warn |-> None]
        ELSE IF RatioIn(ratio, 1, 16) /\ (mCPU > 30000 \/ memory > 110000)
        THEN [class |-> COMPUTE_CLASS_BALANCED, warn |-> None]
        ELSE [class |-> COMPUTE_CLASS_REGULAR, warn |-> WARN_NO_CLASS]

-----------------------------------------------------------------------------
(* ap_pricing and CalculatePricing                                         *)

PriceFields ==
    {"storage_price",
     "cpu_price", "memory_price",
     "cpu_balanced_price", "memory_balanced_price",
     "cpu_scaleout_price", "memory_scaleout_price",
     "cpu_arm_scaleout_price", "memory_arm_scaleout_price",
     "spot_cpu_price", "spot_memory_price",
     "spot_cpu_balanced_price", "spot_memory_balanced_price",
     "spot_cpu_scaleout_price", "spot_memory_scaleout_price",
     "spot_arm_cpu_scaleout_price", "spot_arm_memory_scaleout_price"}

\* ap_pricing{region: region, <every price>: 0}
ZeroPricing(region) == [f \in PriceFields \cup {"region"} |->
                           IF f = "region" THEN region ELSE 0]

WARN_NO_ARM_PRICING == "ARM pricing is not available"

\* cpuPrice*float64(cpu_m)/1000 + memoryPrice*float64(memory_m)/1000
\*   + pricing.storage_price*float64(storage_m)/1000
CostOf(cpuPrice, memoryPrice, storagePrice, cpu_m, memory_m, storage_m) ==
    MAdd(MAdd(Term(cpuPrice, cpu_m), Term(memoryPrice, memory_m)),
         Term(storagePrice, storage_m))

\* mutant: the spot branch tests the on-demand ARM pair for zero
CalculatePricing_WrongArmCheck(cpu_m, memory_m, storage_m, p, class, spot) ==
    LET cost(c, m) == CostOf(c, m, p.storage_price, cpu_m, memory_m, storage_m)
        armOff == p.cpu_arm_scaleout_price = 0 \/ p.memory_arm_scaleout_price = 0
    IN  IF spot
        THEN CASE class = COMPUTE_CLASS_BALANCED ->
                    [cost |-> cost(p.spot_cpu_price, p.spot_memory_price), warn |-> None]
               [] class = COMPUTE_CLASS_SCALEOUT ->
                    [cost |-> cost(p.spot_cpu_scaleout_price, p.spot_memory_scaleout_price),
                     warn |-> None]
               [] class = COMPUTE_CLASS_SCALEOUT_ARM ->
                    [cost |-> cost(p.spot_arm_cpu_scaleout_price,
                                   p.spot_arm_memory_scaleout_price),
                     warn |-> IF armOff THEN WARN_NO_ARM_PRICING ELSE None]
               [] OTHER ->
                    [cost |-> cost(p.spot_cpu_price, p.spot_memory_price), warn |-> None]
        ELSE CASE class = COMPUTE_CLASS_BALANCED ->
                    [cost |-> cost(p.cpu_balanced_price, p.memory_balanced_price),
                     warn |-> None]
               [] class = COMPUTE_CLASS_SCALEOUT ->
                    [cost |-> cost(p.cpu_scaleout_price, p.memory_scaleout_price),
                     warn |-> None]
               [] class = COMPUTE_CLASS_SCALEOUT_ARM ->
                    [cost |-> cost(p.cpu_arm_scaleout_price, p.memory_arm_scaleout_price),
                     warn |-> IF armOff THEN WARN_NO_ARM_PRICING ELSE None]
               [] OTHER ->
                    [cost |-> cost(p.cpu_price, p.memory_price), warn |-> None]

\* mutant: on-demand Balanced is charged at the Regular on-demand prices
CalculatePricing_BalancedAsRegular(cpu_m, memory_m, storage_m, p, class, spot) ==
    LET cost(c, m) == CostOf(c, m, p.storage_price, cpu_m, memory_m, storage_m)
    IN  IF spot
        THEN CASE class = COMPUTE_CLASS_BALANCED ->
                    [cost |-> cost(p.spot_cpu_price, p.spot_memory_price), warn |-> None]
               [] class = COMPUTE_CLASS_SCALEOUT ->
                    [cost |-> cost(p.spot_cpu_scaleout_price, p.spot_memory_scaleout_price),
                     warn |-> None]
               [] class = COMPUTE_CLASS_SCALEOUT_ARM ->
                    [cost |-> cost(p.spot_arm_cpu_scaleout_price,
                                   p.spot_arm_memory_scaleout_price),
                     warn |-> IF \/ p.spot_arm_cpu_scaleout_price = 0
                                 \/ p.spot_arm_memory_scaleout_price = 0
                              THEN WARN_NO_ARM_PRICING ELSE None]
               [] OTHER ->
                    [cost |-> cost(p.spot_cpu_price, p.spot_memory_price), warn |-> None]
        ELSE CASE class = COMPUTE_CLASS_SCALEOUT ->
                    [cost |-> cost(p.cpu_scaleout_price, p.memory_scaleout_price),
                     warn |-> None]
               [] class = COMPUTE_CLASS_SCALEOUT_ARM ->
                    [cost |-> cost(p.cpu_arm_scaleout_price, p.memory_arm_scaleout_price),
                     warn |-> IF \/ p.cpu_arm_scaleout_price = 0
                                 \/ p.memory_arm_scaleout_price = 0
                              THEN WARN_NO_ARM_PRICING ELSE None]
               [] OTHER ->
                    [cost |-> cost(p.cpu_price, p.memory_price), warn |-> None]

\* The result is the returned cost and the warning logged on the way, if any.
\* As in the code, the spot Balanced case reads spot_cpu_price and
\* spot_memory_price.
CalculatePricing(cpu_m, memory_m, storage_m, p, class, spot) ==
    LET cost(c, m) == CostOf(c, m, p.storage_price, cpu_m, memory_m, storage_m)
    IN  IF spot
        THEN CASE class = COMPUTE_CLASS_BALANCED ->
                    [cost |-> cost(p.spot_cpu_price, p.spot_memory_price), warn |-> None]
               [] class = COMPUTE_CLASS_SCALEOUT ->
                    [cost |-> cost(p.spot_cpu_scaleout_price, p.spot_memory_scaleout_price),
                     warn |-> None]
               [] class = COMPUTE_CLASS_SCALEOUT_ARM ->
                    [cost |-> cost(p.spot_arm_cpu_scaleout_price,
                                   p.spot_arm_memory_scaleout_price),
                     warn |-> IF \/ p.spot_arm_cpu_scaleout_price = 0
                                 \/ p.spot_arm_memory_scaleout_price = 0
                              THEN WARN_NO_ARM_PRICING ELSE None]
               [] OTHER ->
                    [cost |-> cost(p.spot_cpu_price, p.spot_memory_price), warn |-> None]
        ELSE CASE class = COMPUTE_CLASS_BALANCED ->
                    [cost |-> cost(p.cpu_balanced_price, p.memory_balanced_price),
                     warn |-> None]
               [] class = COMPUTE_CLASS_SCALEOUT ->
                    [cost |-> cost(p.cpu_scaleout_price, p.memory_scaleout_price),
                     warn |-> None]
               [] class = COMPUTE_CLASS_SCALEOUT_ARM ->
                    [cost |-> cost(p.cpu_arm_scaleout_price, p.memory_arm_scaleout_price),
                     warn |-> IF \/ p.cpu_arm_scaleout_price = 0
                                 \/ p.memory_arm_scaleout_price = 0
                              THEN WARN_NO_ARM_PRICING ELSE None]
               [] OTHER ->
                    [cost |-> cost(p.cpu_price, p.memory_price), warn |-> None]

-----------------------------------------------------------------------------
(* GetAutopilotPricing                                                     *)

\* A SKU is [ServiceRegions, Description, Units, Nanos, DisplayQuantity]:
\* Units and Nanos are those of PricingInfo[0].PricingExpression
\* .TieredRates[0].UnitPrice, DisplayQuantity is int64(DisplayQuantity).
\* Every SKU of the model has a PricingInfo and a tiered rate.

\* decimal + mantissa, in nano-dollars (price is that number / 1000000000)
SkuPrice(sku) == sku.Units * 1000000000 + sku.Nanos * sku.DisplayQuantity

\* The cases of the switch on sku.Description, in source order: the text
\* before " (" + region + ")" and the field the case assigns.
SkuCases ==
    << <<"Autopilot Pod Ephemeral Storage Requests", "storage_price">>,
       <<"Autopilot Pod Memory Requests", "memory_price">>,
       <<"Autopilot Pod mCPU Requests", "cpu_price">>,
       <<"Autopilot Balanced Pod Memory Requests", "memory_balanced_price">>,
       <<"Autopilot Balanced Pod mCPU Requests", "cpu_balanced_price">>,
       <<"Autopilot Scale-Out x86 Pod Memory Requests", "memory_scaleout_price">>,
       <<"Autopilot Scale-Out x86 Pod mCPU Requests", "cpu_scaleout_price">>,
       <<"Autopilot Scale-Out Arm Spot Pod Memory Requests", "memory_arm_scaleout_price">>,
       <<"Autopilot Scale-Out Arm Spot Pod mCPU Requests", "cpu_arm_scaleout_price">>,
       <<"Autopilot Spot Pod Memory Requests", "spot_memory_price">>,
       <<"Autopilot Spot Pod mCPU Requests", "spot_cpu_price">>,
       <<"Autopilot Balanced Spot Pod Memory Requests", "spot_memory_balanced_price">>,
       <<"Autopilot Balanced Spot Pod mCPU Requests", "spot_cpu_balanced_price">>,
       <<"Autopilot Scale-Out x86 Spot Pod Memory Requests", "spot_memory_scaleout_price">>,
       <<"Autopilot Scale-Out x86 Spot Pod mCPU Requests", "spot_cpu_scaleout_price">>,
       <<"Autopilot Scale-Out Arm Spot Pod Memory Requests", "spot_arm_memory_scaleout_price">>,
       <<"Autopilot Scale-Out Arm Spot Pod mCPU Requests", "spot_arm_cpu_scaleout_price">> >>

\* the description a SKU of `region` carries for the resource named by `text`
Describe(text, region) == text \o " (" \o region \o ")"

\* One iteration of the loop over pricingInfo.Skus: a Go switch runs the
\* first case whose expression equals the tag, and no other.
ApplySku(p, sku, region) ==
    IF region \notin sku.ServiceRegions THEN p
    ELSE LET hits == {i \in DOMAIN SkuCases :
                         sku.Description = Describe(SkuCases[i][1], region)}
         IN  IF hits = {} THEN p
             ELSE LET first == CHOOSE i \in hits : \A j \in hits : i <= j
                  IN  [p EXCEPT ![SkuCases[first][2]] = SkuPrice(sku)]

RECURSIVE ApplySkus(_, _, _)
ApplySkus(p, skus, region) ==
    IF skus = <<>> THEN p
    ELSE ApplySkus(ApplySku(p, Head(skus), region), Tail(skus), region)

\* the pricing GetAutopilotPricing returns with a nil error
GetAutopilotPricing(region, skus) == ApplySkus(ZeroPricing(region), skus, region)

-----------------------------------------------------------------------------
(* PopulateWorkloads                                                       *)

\* A pod is [Name, NodeName, Containers]: the PodMetrics item with the
\* Spec.NodeName DescribePod finds for it.  A container is [cpu, memory,
\* storage]: Usage.Cpu().MilliValue(), Usage.Memory().MilliValue() /
\* 1000000000 and Usage.StorageEphemeral().MilliValue() / 1000000000, the
\* three numbers the loop over v.Containers adds up.

\* nodes[name] of a Go map: the zero Node when name is no key
ZeroNode ==
    [Name |-> "", InstanceType |-> "", Region |-> "", Spot |-> FALSE,
     Workloads |-> <<>>, Cost |-> Zero]

NodeAt(nds, name) == IF name \in DOMAIN nds THEN nds[name] ELSE ZeroNode

\* strings.Contains(s, substr), for the strings made of these fragments
Fragments == {"", "e2-", "n2-", "standard-4", "standard-8", "e2-standard-4"}

StringsContains(s, substr) ==
    \E a \in Fragments, b \in Fragments : s = a \o substr \o b

\* the sums over v.Containers
RECURSIVE SumUsage(_)
SumUsage(containers) ==
    IF containers = <<>> THEN [cpu_m |-> 0, memory_m |-> 0, storage_m |-> 0]
    ELSE LET rest == SumUsage(SubSeq(containers, 1, Len(containers) - 1))
             k    == containers[Len(containers)]
         IN  [cpu_m     |-> rest.cpu_m + k.cpu,
              memory_m  |-> rest.memory_m + k.memory,
              storage_m |-> rest.storage_m + k.storage]

\* mutant: the class is decided on the summed usage, before the lower limits
PodWorkload_ClassifyRaw(pod, nds, p) ==
    LET raw   == SumUsage(pod.Containers)
        node  == NodeAt(nds, pod.NodeName)
        arm64 == StringsContains(node.InstanceType, ARM_TYPE_PREFIX)
        class == DecideComputeClass(raw.cpu_m, raw.memory_m, arm64)
        lim   == ValidateLowerLimits(raw.cpu_m, raw.memory_m, raw.storage_m)
        price == CalculatePricing(lim.mCPU, lim.memory, lim.storage, p,
                                  class.class, node.Spot)
    IN  [workload |->
            [Name |-> pod.Name, Containers |-> Len(pod.Containers),
             Node_name |-> pod.NodeName, Cpu |-> lim.mCPU, Memory |-> lim.memory,
             Storage |-> lim.storage, Cost |-> price.cost,
             Compute_class |-> class.class],
         calls |->
            << [fn |-> "DecideComputeClass", mCPU |-> raw.cpu_m,
                memory |-> raw.memory_m, arm64 |-> arm64],
               [fn |-> "CalculatePricing", cpu_m |-> lim.mCPU,
                memory_m |-> lim.memory, storage_m |-> lim.storage,
                class |-> class.class, spot |-> node.Spot] >>]

\* mutant: every pod is priced at the on-demand prices
PodWorkload_NeverSpot(pod, nds, p) ==
    LET raw   == SumUsage(pod.Containers)
        lim   == ValidateLowerLimits(raw.cpu_m, raw.memory_m, raw.storage_m)
        node  == NodeAt(nds, pod.NodeName)
        arm64 == StringsContains(node.InstanceType, ARM_TYPE_PREFIX)
        class == DecideComputeClass(lim.mCPU, lim.memory, arm64)
        price == CalculatePricing(lim.mCPU, lim.memory, lim.storage, p,
                                  class.class, FALSE)
    IN  [workload |->
            [Name |-> pod.Name, Containers |-> Len(pod.Containers),
             Node_name |-> pod.NodeName, Cpu |-> lim.mCPU, Memory |-> lim.memory,
             Storage |-> lim.storage, Cost |-> price.cost,
             Compute_class |-> class.class],
         calls |->
            << [fn |-> "DecideComputeClass", mCPU |-> lim.mCPU,
                memory |-> lim.memory, arm64 |-> arm64],
               [fn |-> "CalculatePricing", cpu_m |-> lim.mCPU,
                memory_m |-> lim.memory, storage_m |-> lim.storage,
                class |-> class.class, spot |-> FALSE] >>]

\* The body of the loop over podMetricsList.Items up to workload_object: the
\* Workload it builds and the two calls it makes, in order.
PodWorkload(pod, nds, p) ==
    LET raw   == SumUsage(pod.Containers)
        lim   == ValidateLowerLimits(raw.cpu_m, raw.memory_m, raw.storage_m)
        node  == NodeAt(nds, pod.NodeName)
        arm64 == StringsContains(node.InstanceType, ARM_TYPE_PREFIX)
        class == DecideComputeClass(lim.mCPU, lim.memory, arm64)
        price == CalculatePricing(lim.mCPU, lim.memory, lim.storage, p,
                                  class.class, node.Spot)
    IN  [workload |->
            [Name |-> pod.Name, Containers |-> Len(pod.Containers),
             Node_name |-> pod.NodeName, Cpu |-> lim.mCPU, Memory |-> lim.memory,
             Storage |-> lim.storage, Cost |-> price.cost,
             Compute_class |-> class.class],
         calls |->
            << [fn |-> "DecideComputeClass", mCPU |-> lim.mCPU,
                memory |-> lim.memory, arm64 |-> arm64],
               [fn |-> "CalculatePricing", cpu_m |-> lim.mCPU,
                memory_m |-> lim.memory, storage_m |-> lim.storage,
                class |-> class.class, spot |-> node.Spot] >>]

\* mutant: the node's cost is overwritten instead of added to
AddToNode_Overwrite(nds, name, w) ==
    IF name \in DOMAIN nds
    THEN [nds EXCEPT ![name] = [@ EXCEPT !.Workloads = Append(@, w),
                                         !.Cost = w.Cost]]
    ELSE nds

\* if entry, ok := nodes[name]; ok { append, add, store back }
AddToNode(nds, name, w) ==
    IF name \in DOMAIN nds
    THEN [nds EXCEPT ![name] = [@ EXCEPT !.Workloads = Append(@, w),
                                         !.Cost = MAdd(@, w.Cost)]]
    ELSE nds

-----------------------------------------------------------------------------
(* DisplayWorkloadTable                                                    *)

\* the loop over node.Workloads, adding each workload's cost to acc
RECURSIVE AddCosts(_, _)
AddCosts(acc, ws) ==
    IF ws = <<>> THEN acc ELSE AddCosts(MAdd(acc, Head(ws).Cost), Tail(ws))

\* mutant: the commitment discount is applied to the spot total as well
TotalRows_DiscountAll(total, spot) ==
    [total      |-> total,
     one_year   |-> MScale(ONE_YEAR_DISCOUNT, MAdd(spot, total)),
     three_year |-> MScale(THREE_YEAR_DISCOUNT, MAdd(spot, total))]

\* The numbers of the three total rows, before strconv.FormatFloat.  total is
\* total_cost; one_year and three_year are in hundredths of a pico-dollar:
\* 100 * (total_cost_spot + total_cost * ONE_YEAR_DISCOUNT), and the same
\* with THREE_YEAR_DISCOUNT.
TotalRows(total, spot) ==
    [total      |-> total,
     one_year   |-> MAdd(MScale(100, spot), MScale(ONE_YEAR_DISCOUNT, total)),
     three_year |-> MAdd(MScale(100, spot), MScale(THREE_YEAR_DISCOUNT, total))]

-----------------------------------------------------------------------------
(* Bounds and inputs.                                                      *)

MaxPods == 2      \* pods in the cluster
MaxSkus == 2      \* SKUs in a catalog under test
Spread == 2       \* raw usages this far around each lower limit
MaxRatio == 9     \* memory up to this many times the CPU

RECURSIVE SeqsUpTo(_, _)
SeqsUpTo(S, n) ==
    IF n = 0 THEN {<<>>}
    ELSE LET shorter == SeqsUpTo(S, n - 1)
         IN  shorter \cup {Append(s, x) : s \in {t \in shorter : Len(t) = n - 1}, x \in S}

\* strictly increasing sequences over 1..n of length at most k
RECURSIVE IncSeqs(_, _)
IncSeqs(n, k) ==
    IF k = 0 THEN {<<>>}
    ELSE LET shorter == IncSeqs(n, k - 1)
         IN  shorter \cup
             UNION {{Append(s, i) : i \in {j \in 1..n : s = <<>> \/ s[Len(s)] < j}} :
                    s \in shorter}

REGION == "europe-west1"
OTHER_REGION == "us-central1"

Sku(regions, text, descRegion, units, nanos, displayQuantity) ==
    [ServiceRegions |-> regions, Description |-> Describe(text, descRegion),
     Units |-> units, Nanos |-> nanos, DisplayQuantity |-> displayQuantity]

\* the catalog's SKUs of REGION for the x86 classes and for storage
X86Skus ==
    << Sku({REGION}, "Autopilot Pod Ephemeral Storage Requests", REGION, 0, 70600, 1),
       Sku({REGION}, "Autopilot Pod mCPU Requests", REGION, 0, 57300000, 1),
       Sku({REGION}, "Autopilot Pod Memory Requests", REGION, 0, 6342100, 1),
       Sku({REGION}, "Autopilot Balanced Pod mCPU Requests", REGION, 0, 83100000, 1),
       Sku({REGION}, "Autopilot Balanced Pod Memory Requests", REGION, 0, 9193300, 1),
       Sku({REGION}, "Autopilot Scale-Out x86 Pod mCPU Requests", REGION, 0, 72200000, 1),
       Sku({REGION}, "Autopilot Scale-Out x86 Pod Memory Requests", REGION, 0, 7991100, 1),
       Sku({REGION}, "Autopilot Spot Pod mCPU Requests", REGION, 0, 17200000, 1),
       Sku({REGION}, "Autopilot Spot Pod Memory Requests", REGION, 0, 1902600, 1),
       Sku({REGION}, "Autopilot Balanced Spot Pod mCPU Requests", REGION, 0, 24900000, 1),
       Sku({REGION}, "Autopilot Balanced Spot Pod Memory Requests", REGION, 0, 2758000, 1),
       Sku({REGION}, "Autopilot Scale-Out x86 Spot Pod mCPU Requests", REGION, 0, 21700000, 1),
       Sku({REGION}, "Autopilot Scale-Out x86 Spot Pod Memory Requests", REGION, 0, 2397300, 1) >>

\* the catalog's SKUs of REGION for the Arm class, on demand and spot
ArmSkus ==
    << Sku({REGION}, "Autopilot Scale-Out Arm Pod mCPU Requests", REGION, 0, 35000000, 1),
       Sku({REGION}, "Autopilot Scale-Out Arm Pod Memory Requests", REGION, 0, 3900000, 1),
       Sku({REGION}, "Autopilot Scale-Out Arm Spot Pod mCPU Requests", REGION, 0, 10500000, 1),
       Sku({REGION}, "Autopilot Scale-Out Arm Spot Pod Memory Requests", REGION, 0, 1170000, 1) >>

\* SKUs of another region, of several regions, of another product, a second
\* SKU of one description, and prices with units and a display quantity
OtherSkus ==
    << Sku({OTHER_REGION}, "Autopilot Pod mCPU Requests", OTHER_REGION, 0, 61000000, 1),
       Sku({OTHER_REGION}, "Autopilot Pod Memory Requests", REGION, 0, 6700000, 1),
       Sku({REGION, OTHER_REGION}, "Autopilot Balanced Pod mCPU Requests", OTHER_REGION,
           0, 88000000, 1),
       Sku({REGION, OTHER_REGION}, "Autopilot Pod Memory Requests", REGION, 0, 6500000, 1),
       Sku({REGION}, "Autopilot NVIDIA T4 Pod GPU Requests", REGION, 0, 350000000, 1),
       Sku({REGION}, "Autopilot Pod mCPU Requests", REGION, 1, 250000000, 2) >>

MasterSkus == X86Skus \o ArmSkus \o OtherSkus

\* catalogs under test: MasterSkus with all but at most MaxSkus SKUs left out
Catalogs ==
    {[j \in 1..Len(s) |-> MasterSkus[s[j]]] : s \in IncSeqs(Len(MasterSkus), MaxSkus)}

\* catalogs of a whole run: a region without and a region with Arm SKUs
ClusterCatalogs == {X86Skus, X86Skus \o ArmSkus}

\* A node as GetClusterNodes returns it: no workload yet and no cost.
NewNode(name, instanceType, spot) ==
    [Name |-> name, InstanceType |-> instanceType, Region |-> REGION, Spot |-> spot,
     Workloads |-> <<>>, Cost |-> Zero]

\* the clusters: an x86 node and an Arm node, each on demand or spot
NodeMaps ==
    {[n \in {"node-1", "node-2"} |->
         IF n = "node-1" THEN NewNode(n, "e2-standard-4", s1)
                         ELSE NewNode(n, "t2a-standard-4", s2)] :
     s1 \in BOOLEAN, s2 \in BOOLEAN}

\* "node-x" is the node of a pod whose node is not in the listed nodes
PodNodeNames == {"node-1", "node-2", "node-x"}

Container(cpu, memory, storage) == [cpu |-> cpu, memory |-> memory, storage |-> storage]

\* no usage at all; usage below every lower limit; Regular, Balanced and
\* (two containers, 40000 mCPU and 160000 MiB together) Scale-Out sized usage
ContainerLists ==
    {<<Container(0, 0, 0)>>,
     <<Container(100, 300, 5)>>,
     <<Container(4000, 16000, 10000)>>,
     <<Container(35000, 100000, 20)>>,
     <<Container(20000, 80000, 0), Container(20000, 80000, 7)>>}

PodNames == <<"pod-a", "pod-b", "pod-c", "pod-d">>

PodLists ==
    {[i \in 1..Len(s) |-> [Name |-> PodNames[i], NodeName |-> s[i][1],
                           Containers |-> s[i][2]]] :
     s \in SeqsUpTo(PodNodeNames \X ContainerLists, MaxPods)}

-----------------------------------------------------------------------------
(* The run of main: pricing, workloads, the workload table.                *)

Init ==
    /\ pc = "pricing"
    /\ args = None
    /\ ret = None
    /\ catalog \in ClusterCatalogs
    /\ pricing = None
    /\ nodes \in NodeMaps
    /\ pods \in PodLists
    /\ idx = 0
    /\ workloads = <<>>
    /\ calls = <<>>
    /\ visited = {}
    /\ total_cost = Zero
    /\ total_cost_spot = Zero
    /\ rows = None

\* pricing, err := GetAutopilotPricing(clusterRegion), err == nil
FetchPricing ==
    /\ pc = "pricing"
    /\ pricing' = GetAutopilotPricing(REGION, catalog)
    /\ pc' = "populate"
    /\ UNCHANGED <<args, ret, catalog, nodes, pods, idx, workloads, calls, visited,
                   total_cost, total_cost_spot, rows>>

\* the billing service cannot be reached: ap_pricing{} and an error, which
\* main ends on
FetchPricingFails ==
    /\ pc = "pricing"
    /\ pricing' = ZeroPricing("")
    /\ pc' = "fatal"
    /\ UNCHANGED <<args, ret, catalog, nodes, pods, idx, workloads, calls, visited,
                   total_cost, total_cost_spot, rows>>

\* one iteration of the loop over podMetricsList.Items
PopulateStep ==
    /\ pc = "populate"
    /\ idx < Len(pods)
    /\ LET pod == pods[idx + 1]
           r   == PodWorkload(pod, nodes, pricing)
       IN  /\ workloads' = Append(workloads, r.workload)
           /\ calls' = calls \o r.calls
           /\ nodes' = AddToNode(nodes, pod.NodeName, r.workload)
    /\ idx' = idx + 1
    /\ UNCHANGED <<pc, args, ret, catalog, pricing, pods, visited, total_cost,
                   total_cost_spot, rows>>

\* DescribePod fails for the next pod: return nil, err, which main ends on
PopulateFails ==
    /\ pc = "populate"
    /\ idx < Len(pods)
    /\ workloads' = <<>>
    /\ pc' = "fatal"
    /\ UNCHANGED <<args, ret, catalog, pricing, nodes, pods, idx, calls, visited,
                   total_cost, total_cost_spot, rows>>

\* return workloads, nil; main goes on to DisplayWorkloadTable, whose
\* totals start at CLUSTER_FEE and 0.0
PopulateReturns ==
    /\ pc = "populate"
    /\ idx = Len(pods)
    /\ pc' = "display"
    /\ total_cost' = CLUSTER_FEE
    /\ total_cost_spot' = Zero
    /\ UNCHANGED <<args, ret, catalog, pricing, nodes, pods, idx, workloads, calls,
                   visited, rows>>

\* -quiet: no table is drawn
PopulateReturnsQuiet ==
    /\ pc = "populate"
    /\ idx = Len(pods)
    /\ pc' = "exit"
    /\ UNCHANGED <<args, ret, catalog, pricing, nodes, pods, idx, workloads, calls,
                   visited, total_cost, total_cost_spot, rows>>

\* one iteration of the loop over nodes (a Go map: any order), with its loop
\* over node.Workloads
DisplayNode ==
    /\ pc = "display"
    /\ \E n \in DOMAIN nodes \ visited :
          /\ visited' = visited \cup {n}
          /\ IF nodes[n].Spot
             THEN /\ total_cost_spot' = AddCosts(total_cost_spot, nodes[n].Workloads)
                  /\ UNCHANGED total_cost
             ELSE /\ total_cost' = AddCosts(total_cost, nodes[n].Workloads)
                  /\ UNCHANGED total_cost_spot
    /\ UNCHANGED <<pc, args, ret, catalog, pricing, nodes, pods, idx, workloads, calls,
                   rows>>

\* the three total rows appended after the loop
DisplayTotals ==
    /\ pc = "display"
    /\ visited = DOMAIN nodes
    /\ rows' = TotalRows(total_cost, total_cost_spot)
    /\ pc' = "drawn"
    /\ UNCHANGED <<args, ret, catalog, pricing, nodes, pods, idx, workloads, calls,
                   visited, total_cost, total_cost_spot>>

Next ==
    \/ FetchPricing
    \/ FetchPricingFails
    \/ PopulateStep
    \/ PopulateFails
    \/ PopulateReturns
    \/ PopulateReturnsQuiet
    \/ DisplayNode
    \/ DisplayTotals

Spec == Init /\ [][Next]_vars

-----------------------------------------------------------------------------
(* The functions on their own, each called once on an input of a set.      *)

\* the state of main that a single call does not touch
NoRun ==
    /\ nodes = <<>>
    /\ pods = <<>>
    /\ idx = 0
    /\ workloads = <<>>
    /\ calls = <<>>
    /\ visited = {}
    /\ total_cost = Zero
    /\ total_cost_spot = Zero
    /\ rows = None

Around(floor) == (floor - Spread)..(floor + Spread)

InitLimits ==
    /\ pc = "call"
    /\ args \in [mCPU    : {-1, 0, 1000} \cup Around(250),
                 memory  : {-1, 0, 1000} \cup Around(500),
                 storage : {-1, 0, 1000} \cup Around(10)]
    /\ ret = None
    /\ catalog = <<>>
    /\ pricing = None
    /\ NoRun

CallValidateLowerLimits ==
    /\ pc = "call"
    /\ ret' = ValidateLowerLimits(args.mCPU, args.memory, args.storage)
    /\ pc' = "returned"
    /\ UNCHANGED <<args, catalog, pricing, nodes, pods, idx, workloads, calls, visited,
                   total_cost, total_cost_spot, rows>>

SpecLimits == InitLimits /\ [][CallValidateLowerLimits]_vars

\* normalised usages around the thresholds of the classifier
ClassCpus ==
    {250, 1000, 10000, 20000, 25000, 30000, 30001, 35000, 43000, 43001, 54000, 54001,
     60000}

ClassMemories(cpu) ==
    {m \in {cpu * k + d : k \in 0..MaxRatio, d \in {-1, 0, 1}}
           \cup {500, 80000, 100000, 110000, 110001, 172000, 172001, 216000, 216001} :
       m >= 500}

InitClass ==
    /\ pc = "call"
    /\ args \in UNION {[mCPU : {cpu}, memory : ClassMemories(cpu), arm64 : BOOLEAN] :
                       cpu \in ClassCpus}
    /\ ret = None
    /\ catalog = <<>>
    /\ pricing = None
    /\ NoRun

CallDecideComputeClass ==
    /\ pc = "call"
    /\ ret' = DecideComputeClass(args.mCPU, args.memory, args.arm64)
    /\ pc' = "returned"
    /\ UNCHANGED <<args, catalog, pricing, nodes, pods, idx, workloads, calls, visited,
                   total_cost, total_cost_spot, rows>>

SpecClass == InitClass /\ [][CallDecideComputeClass]_vars

\* the ap_pricing of TestCalculatePricing
TestPricing ==
    [ZeroPricing("test-region-1") EXCEPT
        !.storage_price = 70600,
        !.cpu_price = 57300000,
        !.memory_price = 6342100,
        !.cpu_balanced_price = 83100000,
        !.memory_balanced_price = 9193300,
        !.cpu_scaleout_price = 72200000,
        !.memory_scaleout_price = 7991100,
        !.spot_cpu_price = 17200000,
        !.spot_memory_price = 1902600,
        !.spot_cpu_balanced_price = 24900000,
        !.spot_memory_balanced_price = 2758000,
        !.spot_cpu_scaleout_price = 21700000,
        !.spot_memory_scaleout_price = 2397300]

\* the same with the four Arm prices set
ArmPricing ==
    [TestPricing EXCEPT
        !.cpu_arm_scaleout_price = 35000000,
        !.memory_arm_scaleout_price = 3900000,
        !.spot_arm_cpu_scaleout_price = 10500000,
        !.spot_arm_memory_scaleout_price = 1170000]

\* price tables: no Arm price, every Arm price, and one Arm price missing
Pricings ==
    {TestPricing, ArmPricing}
    \cup {[ArmPricing EXCEPT ![f] = 0] :
          f \in {"cpu_arm_scaleout_price", "memory_arm_scaleout_price",
                 "spot_arm_cpu_scaleout_price", "spot_arm_memory_scaleout_price"}}

\* the usages of TestCalculatePricing, the lower limits, and an odd usage
PricedUsages ==
    {<<4000, 16000, 10000>>, <<40000, 80000, 10000>>, <<25000, 100000, 10000>>,
     <<250, 500, 10>>, <<1234, 5678, 91>>}

\* "Unknown" is a ComputeClass value none of the switch cases names
PricedClasses == ComputeClass \cup {"Unknown"}

InitPrice ==
    /\ pc = "call"
    /\ \E u \in PricedUsages, p \in Pricings, c \in PricedClasses, s \in BOOLEAN :
          args = [cpu_m |-> u[1], memory_m |-> u[2], storage_m |-> u[3],
                  pricing |-> p, class |-> c, spot |-> s]
    /\ ret = None
    /\ catalog = <<>>
    /\ pricing = None
    /\ NoRun

CallCalculatePricing ==
    /\ pc = "call"
    /\ ret' = CalculatePricing(args.cpu_m, args.memory_m, args.storage_m, args.pricing,
                               args.class, args.spot)
    /\ pc' = "returned"
    /\ UNCHANGED <<args, catalog, pricing, nodes, pods, idx, workloads, calls, visited,
                   total_cost, total_cost_spot, rows>>

SpecPrice == InitPrice /\ [][CallCalculatePricing]_vars

InitCatalog ==
    /\ pc = "pricing"
    /\ args = None
    /\ ret = None
    /\ catalog \in Catalogs
    /\ pricing = None
    /\ NoRun

NextCatalog == FetchPricing \/ FetchPricingFails

SpecCatalog == InitCatalog /\ [][NextCatalog]_vars

-----------------------------------------------------------------------------
(* Properties.                                                             *)

Max(a, b) == IF a >= b THEN a ELSE b

\* C1 (SpecLimits): ValidateLowerLimits returns (max(cpu, 250), max(memory,
\* 500), max(storage, 10)): a component below its floor is raised to the
\* floor, one at or above it is returned unchanged, whatever the other two.
C1_LowerLimits ==
    pc = "returned" =>
        /\ ret.mCPU = Max(args.mCPU, 250)
        /\ ret.memory = Max(args.memory, 500)
        /\ ret.storage = Max(args.storage, 10)

\* C1 witness: only CPU and storage are below their floors, and only they
\* are raised
C1_Witness ==
    /\ pc = "returned"
    /\ args = [mCPU |-> 249, memory |-> 1000, storage |-> 9]
    /\ ret = [mCPU |-> 250, memory |-> 1000, storage |-> 10]

\* ceil(memory / cpu) for cpu > 0 and memory >= 0
CeilRatio(memory, cpu) == (memory + cpu - 1) \div cpu

\* the class the ordered rules (1)..(5) of C2 give, first match winning
RuleClass(cpu, memory, arm) ==
    LET ratio == CeilRatio(memory, cpu)
    IN  CASE arm -> "ScaleOutArm"
          [] ~arm /\ 1 <= ratio /\ 2 * ratio <= 13 /\ cpu <= 30000 /\ memory <= 110000
                -> "Regular"
          [] ~arm /\ ~(1 <= ratio /\ 2 * ratio <= 13 /\ cpu <= 30000 /\ memory <= 110000)
                  /\ ratio = 4 /\ cpu <= 54000 /\ memory <= 216000
                -> "ScaleOut"
          [] ~arm /\ ~(1 <= ratio /\ 2 * ratio <= 13 /\ cpu <= 30000 /\ memory <= 110000)
                  /\ ~(ratio = 4 /\ cpu <= 54000 /\ memory <= 216000)
                  /\ 1 <= ratio /\ ratio <= 8 /\ (cpu > 30000 \/ memory > 110000)
                -> "Balanced"
          [] OTHER -> "Regular"

\* C2 (SpecClass): on normalised usage DecideComputeClass returns exactly one
\* class, the one the ordered rules give: arm -> ScaleOutArm; ratio in
\* [1, 6.5], cpu <= 30000, memory <= 110000 -> Regular; ratio = 4, cpu <=
\* 54000, memory <= 216000 -> ScaleOut; ratio in [1, 8] and cpu > 30000 or
\* memory > 110000 -> Balanced; otherwise Regular.  (10000, 10000) is
\* Regular, (35000, 100000) is Balanced, (20000, 80000, arm) is ScaleOutArm.
C2_ClassByRules ==
    pc = "returned" =>
        /\ ret.class \in ComputeClass
        /\ ret.class = RuleClass(args.mCPU, args.memory, args.arm64)
        /\ args = [mCPU |-> 10000, memory |-> 10000, arm64 |-> FALSE]
              => ret.class = "Regular"
        /\ args = [mCPU |-> 35000, memory |-> 100000, arm64 |-> FALSE]
              => ret.class = "Balanced"
        /\ args = [mCPU |-> 20000, memory |-> 80000, arm64 |-> TRUE]
              => ret.class = "ScaleOutArm"

\* C2 witness: the Balanced case of the tests has been classified
C2_Witness ==
    /\ pc = "returned"
    /\ args = [mCPU |-> 35000, memory |-> 100000, arm64 |-> FALSE]
    /\ ret.class = "Balanced"

\* the CPU and memory price fields dedicated to a class and a billing mode;
\* Regular and any unrecognised class have the Regular pair
DedicatedPair(class, spot) ==
    CASE class = "Balanced" /\ spot  -> <<"spot_cpu_balanced_price", "spot_memory_balanced_price">>
      [] class = "Balanced" /\ ~spot -> <<"cpu_balanced_price", "memory_balanced_price">>
      [] class = "ScaleOut" /\ spot  -> <<"spot_cpu_scaleout_price", "spot_memory_scaleout_price">>
      [] class = "ScaleOut" /\ ~spot -> <<"cpu_scaleout_price", "memory_scaleout_price">>
      [] class = "ScaleOutArm" /\ spot ->
             <<"spot_arm_cpu_scaleout_price", "spot_arm_memory_scaleout_price">>
      [] class = "ScaleOutArm" /\ ~spot ->
             <<"cpu_arm_scaleout_price", "memory_arm_scaleout_price">>
      [] OTHER -> IF spot THEN <<"spot_cpu_price", "spot_memory_price">>
                          ELSE <<"cpu_price", "memory_price">>

\* C3 (SpecPrice): the cost is cpuPrice * cpu / 1000 + memoryPrice * memory /
\* 1000 + storagePrice * storage / 1000 with the CPU and memory prices of
\* the class's own fields for the billing mode, for Balanced, ScaleOut and
\* ScaleOutArm, on demand and spot; Regular and unrecognised classes use the
\* Regular pair.
C3_DedicatedPrices ==
    pc = "returned" =>
        LET pair == DedicatedPair(args.class, args.spot)
        IN  ret.cost = CostOf(args.pricing[pair[1]], args.pricing[pair[2]],
                              args.pricing.storage_price,
                              args.cpu_m, args.memory_m, args.storage_m)

\* a call of CalculatePricing on the test price table
Fixture(cpu, memory, storage, class, spot) ==
    [cpu_m |-> cpu, memory_m |-> memory, storage_m |-> storage,
     pricing |-> TestPricing, class |-> class, spot |-> spot]

\* the returned cost is within 1e-9 dollars (1000 pico-dollars) of
\* micro + pico / 10^6 micro-dollars
Returns(micro, pico) == MWithin(ret.cost, [hi |-> micro, lo |-> pico], 1000)

\* C4 as stated (SpecPrice): on the test price table CalculatePricing returns
\* 0.3313796 for (4000, 16000, 10000, Regular, on demand), 4.0601700 for
\* (40000, 80000, 10000, Regular, on demand) and 0.6209660 for (25000,
\* 100000, 10000, Balanced, spot), within 1e-9.
C4_FixturesAsStated ==
    pc = "returned" =>
        /\ args = Fixture(4000, 16000, 10000, "Regular", FALSE) => Returns(331379, 600000)
        /\ args = Fixture(40000, 80000, 10000, "Regular", FALSE) => Returns(4060170, 0)
        /\ args = Fixture(25000, 100000, 10000, "Balanced", TRUE) => Returns(620966, 0)

\* C4 amended (SpecPrice): with the classes TestCalculatePricing passes, the
\* ones DecideComputeClass gives the three usages, CalculatePricing returns
\* 0.3313796 for (4000, 16000, 10000, Regular, on demand), 4.0601700 for
\* (40000, 80000, 10000, Balanced, on demand) and 0.6209660 for (25000,
\* 100000, 10000, Regular, spot), within 1e-9.
C4_Fixtures ==
    pc = "returned" =>
        /\ args = Fixture(4000, 16000, 10000,
                          DecideComputeClass(4000, 16000, FALSE).class, FALSE)
              => args.class = "Regular" /\ Returns(331379, 600000)
        /\ args = Fixture(40000, 80000, 10000,
                          DecideComputeClass(40000, 80000, FALSE).class, FALSE)
              => args.class = "Balanced" /\ Returns(4060170, 0)
        /\ args = Fixture(25000, 100000, 10000,
                          DecideComputeClass(25000, 100000, FALSE).class, TRUE)
              => args.class = "Regular" /\ Returns(620966, 0)

\* C4 witness: the second fixture, priced as Balanced on demand, came to
\* 4.0601700
C4_Witness ==
    /\ pc = "returned"
    /\ args = Fixture(40000, 80000, 10000, "Balanced", FALSE)
    /\ ret.cost = [hi |-> 4060170, lo |-> 0]

\* the summed costs of the workloads in the Workloads lists of the nodes S
RECURSIVE HostedCost(_)
HostedCost(S) ==
    IF S = {} THEN Zero
    ELSE LET n == CHOOSE x \in S : TRUE
             W == nodes[n].Workloads
         IN  MAdd(MSum([i \in 1..Len(W) |-> W[i].Cost]), HostedCost(S \ {n}))

\* the cluster fee and the costs of the workloads hosted on non-spot nodes
NonSpotTotal == MAdd(CLUSTER_FEE, HostedCost({n \in DOMAIN nodes : ~nodes[n].Spot}))

\* the costs of the workloads hosted on spot nodes
SpotTotal == HostedCost({n \in DOMAIN nodes : nodes[n].Spot})

\* C5 (Spec): once the table is drawn, the reported total hourly cost is
\* nonSpotTotal + spotTotal: the cluster fee, the costs of the workloads on
\* non-spot nodes and the costs of the workloads on spot nodes.
C5_TotalIsSpotPlusNonSpot ==
    pc = "drawn" => rows.total = MAdd(NonSpotTotal, SpotTotal)

\* C6 (Spec): the reported 1-year and 3-year totals are spotTotal + 0.8 *
\* nonSpotTotal and spotTotal + 0.55 * nonSpotTotal, nonSpotTotal holding the
\* cluster fee: spot-hosted costs enter undiscounted, in whatever order the
\* nodes are visited.  (Both sides in hundredths.)
C6_CommitmentTotals ==
    pc = "drawn" =>
        /\ rows.one_year = MAdd(MScale(100, SpotTotal), MScale(80, NonSpotTotal))
        /\ rows.three_year = MAdd(MScale(100, SpotTotal), MScale(55, NonSpotTotal))

\* C6 witness: the rows are out for a cluster with a spot-hosted and a
\* non-spot-hosted workload
C6_Witness ==
    /\ pc = "drawn"
    /\ SpotTotal # Zero
    /\ NonSpotTotal # CLUSTER_FEE

\* C7 (Spec): after every processed workload, and so after the whole pass,
\* each node's Cost is the sum of the Cost fields of its Workloads list.
C7_NodeCostIsSum ==
    \A n \in DOMAIN nodes :
        LET W == nodes[n].Workloads
        IN  nodes[n].Cost = MSum([i \in 1..Len(W) |-> W[i].Cost])

\* C7 witness: the pass returned without error and left a node with two
\* workloads of different costs
C7_Witness ==
    /\ pc = "display"
    /\ \E n \in DOMAIN nodes :
          /\ Len(nodes[n].Workloads) >= 2
          /\ nodes[n].Workloads[1].Cost # nodes[n].Workloads[2].Cost

\* C8 (SpecPrice): CalculatePricing logs the Arm warning exactly when the
\* class is ScaleOutArm and the CPU or the memory price of the Arm pair of
\* the billing mode is zero, and then still returns the cost computed with
\* that pair; no warning for another class or with both prices set.
C8_ArmWarning ==
    pc = "returned" =>
        LET cpuPrice == IF args.spot THEN args.pricing.spot_arm_cpu_scaleout_price
                                     ELSE args.pricing.cpu_arm_scaleout_price
            memoryPrice == IF args.spot THEN args.pricing.spot_arm_memory_scaleout_price
                                        ELSE args.pricing.memory_arm_scaleout_price
        IN  /\ ret.warn = WARN_NO_ARM_PRICING
                  <=> (args.class = "ScaleOutArm" /\ (cpuPrice = 0 \/ memoryPrice = 0))
            /\ ret.warn \in {WARN_NO_ARM_PRICING, None}
            /\ args.class = "ScaleOutArm" =>
                  ret.cost = CostOf(cpuPrice, memoryPrice, args.pricing.storage_price,
                                    args.cpu_m, args.memory_m, args.storage_m)

\* C8 witness: a spot Arm call with only the spot Arm CPU price missing was
\* warned about and priced
C8_Witness ==
    /\ pc = "returned"
    /\ args.class = "ScaleOutArm"
    /\ args.spot
    /\ args.pricing.spot_arm_cpu_scaleout_price = 0
    /\ args.pricing.spot_arm_memory_scaleout_price # 0
    /\ args.pricing.cpu_arm_scaleout_price # 0
    /\ args.pricing.memory_arm_scaleout_price # 0
    /\ ret.warn = WARN_NO_ARM_PRICING
    /\ ret.cost # Zero

\* C9 (Spec): for every pod the loop calls DecideComputeClass and then
\* CalculatePricing on the usage ValidateLowerLimits returned: the classifier
\* only sees cpu >= 250 and memory >= 500, and every recorded Workload has
\* Cpu >= 250, Memory >= 500 and Storage >= 10.
C9_NormalisedFirst ==
    /\ pc # "fatal" => Len(calls) = 2 * idx
    /\ \A i \in DOMAIN calls :
          IF i % 2 = 1
          THEN /\ calls[i].fn = "DecideComputeClass"
               /\ calls[i].mCPU >= 250
               /\ calls[i].memory >= 500
          ELSE /\ calls[i].fn = "CalculatePricing"
               /\ calls[i].cpu_m = calls[i - 1].mCPU
               /\ calls[i].memory_m = calls[i - 1].memory
               /\ calls[i].storage_m >= 10
    /\ \A n \in DOMAIN nodes : \A i \in DOMAIN nodes[n].Workloads :
          LET w == nodes[n].Workloads[i]
          IN  w.Cpu >= 250 /\ w.Memory >= 500 /\ w.Storage >= 10
    /\ \A i \in DOMAIN workloads :
          /\ workloads[i].Cpu = Max(SumUsage(pods[i].Containers).cpu_m, 250)
          /\ workloads[i].Memory = Max(SumUsage(pods[i].Containers).memory_m, 500)
          /\ workloads[i].Storage = Max(SumUsage(pods[i].Containers).storage_m, 10)
          /\ calls[2 * i - 1].mCPU = workloads[i].Cpu
          /\ calls[2 * i - 1].memory = workloads[i].Memory

\* C9 witness: a pod with no CPU and no memory usage was classified at 250
\* mCPU and 500 MiB and recorded so
C9_Witness ==
    \E i \in DOMAIN workloads :
        /\ SumUsage(pods[i].Containers) = [cpu_m |-> 0, memory_m |-> 0, storage_m |-> 0]
        /\ calls[2 * i - 1] = [fn |-> "DecideComputeClass", mCPU |-> 250, memory |-> 500,
                               arm64 |-> calls[2 * i - 1].arm64]
        /\ workloads[i].Cpu = 250 /\ workloads[i].Memory = 500 /\ workloads[i].Storage = 10

\* the description text that names the resource, class and billing mode of
\* a price field
FieldText ==
    [storage_price |-> "Autopilot Pod Ephemeral Storage Requests",
     cpu_price |-> "Autopilot Pod mCPU Requests",
     memory_price |-> "Autopilot Pod Memory Requests",
     cpu_balanced_price |-> "Autopilot Balanced Pod mCPU Requests",
     memory_balanced_price |-> "Autopilot Balanced Pod Memory Requests",
     cpu_scaleout_price |-> "Autopilot Scale-Out x86 Pod mCPU Requests",
     memory_scaleout_price |-> "Autopilot Scale-Out x86 Pod Memory Requests",
     cpu_arm_scaleout_price |-> "Autopilot Scale-Out Arm Pod mCPU Requests",
     memory_arm_scaleout_price |-> "Autopilot Scale-Out Arm Pod Memory Requests",
     spot_cpu_price |-> "Autopilot Spot Pod mCPU Requests",
     spot_memory_price |-> "Autopilot Spot Pod Memory Requests",
     spot_cpu_balanced_price |-> "Autopilot Balanced Spot Pod mCPU Requests",
     spot_memory_balanced_price |-> "Autopilot Balanced Spot Pod Memory Requests",
     spot_cpu_scaleout_price |-> "Autopilot Scale-Out x86 Spot Pod mCPU Requests",
     spot_memory_scaleout_price |-> "Autopilot Scale-Out x86 Spot Pod Memory Requests",
     spot_arm_cpu_scaleout_price |-> "Autopilot Scale-Out Arm Spot Pod mCPU Requests",
     spot_arm_memory_scaleout_price |-> "Autopilot Scale-Out Arm Spot Pod Memory Requests"]

\* the catalog's SKUs of REGION described as the price of field f
SkusOf(f) ==
    {i \in DOMAIN catalog :
        /\ REGION \in catalog[i].ServiceRegions
        /\ catalog[i].Description = Describe(FieldText[f], REGION)}

\* C10 (SpecCatalog): after GetAutopilotPricing every price field holds the
\* price of the region's SKU described as that resource, class and billing
\* mode (the last one, if several), and is zero only if the catalog has no
\* such SKU; SKUs of other regions change nothing.
C10_FieldsFollowCatalog ==
    pc = "populate" =>
        \A f \in PriceFields :
            IF SkusOf(f) = {} THEN pricing[f] = 0
            ELSE LET last == CHOOSE i \in SkusOf(f) : \A j \in SkusOf(f) : j <= i
                 IN  pricing[f] = SkuPrice(catalog[last]) /\ pricing[f] # 0

\* PopulateWorkloads has returned its workloads with a nil error
Populated == pc \in {"display", "drawn", "exit"}

\* how many entries of node n's Workloads list are the workload w
Occurrences(n, w) ==
    Cardinality({i \in DOMAIN nodes[n].Workloads : nodes[n].Workloads[i] = w})

\* the summed Cost fields of the nodes S
RECURSIVE CostOfNodes(_)
CostOfNodes(S) ==
    IF S = {} THEN Zero
    ELSE LET n == CHOOSE x \in S : TRUE
         IN  MAdd(nodes[n].Cost, CostOfNodes(S \ {n}))

\* the summed Cost of all nodes
NodesCost == CostOfNodes(DOMAIN nodes)

\* the summed Cost of the returned workloads
ReturnedCost == MSum([i \in DOMAIN workloads |-> workloads[i].Cost])

\* C11 as stated (Spec): after a pass without error every returned workload
\* is in exactly one node's Workloads list, that of the node its Node_name
\* names, and the nodes' Cost fields add up to the Cost fields of all
\* returned workloads, also for a pod whose node name is no key of the map.
C11_EveryWorkloadOnItsNode ==
    Populated =>
        /\ \A i \in DOMAIN workloads :
              /\ workloads[i].Node_name \in DOMAIN nodes
              /\ \A n \in DOMAIN nodes :
                    Occurrences(n, workloads[i]) =
                        IF n = workloads[i].Node_name THEN 1 ELSE 0
        /\ NodesCost = ReturnedCost

\* C11 failing state: the pass returned a workload of a node that is not listed
\* and a workload of a listed node
C11_Witness ==
    /\ pc = "display"
    /\ \E i, j \in DOMAIN workloads :
          /\ workloads[i].Node_name \notin DOMAIN nodes
          /\ workloads[j].Node_name \in DOMAIN nodes
          /\ Occurrences(workloads[j].Node_name, workloads[j]) = 1
    /\ NodesCost # ReturnedCost

\* the arm64 request lies outside the accepted envelope
ArmOutOfRange(cpu, memory) ==
    CeilRatio(memory, cpu) # 4 \/ cpu > 43000 \/ memory > 172000

\* one of the Regular, ScaleOut and Balanced rules matches
SomeRuleMatches(cpu, memory) ==
    LET ratio == CeilRatio(memory, cpu)
    IN  \/ 1 <= ratio /\ 2 * ratio <= 13 /\ cpu <= 30000 /\ memory <= 110000
        \/ ratio = 4 /\ cpu <= 54000 /\ memory <= 216000
        \/ 1 <= ratio /\ ratio <= 8 /\ (cpu > 30000 \/ memory > 110000)

\* C12 (SpecClass): DecideComputeClass always returns a class and warns in
\* exactly two situations: (a) arm is set and ratio # 4 or cpu > 43000 or
\* memory > 172000, and it still returns ScaleOutArm; (b) arm is not set and
\* none of the Regular, ScaleOut and Balanced rules matches, and it returns
\* Regular.  A non-arm input that matches one of the rules gets no warning.
C12_WarnsInTwoCases ==
    pc = "returned" =>
        LET cpu == args.mCPU
            memory == args.memory
        IN  /\ ret.class \in ComputeClass
            /\ ret.warn \in {None, WARN_ARM_RANGE, WARN_NO_CLASS}
            /\ ret.warn = WARN_ARM_RANGE <=> args.arm64 /\ ArmOutOfRange(cpu, memory)
            /\ ret.warn = WARN_NO_CLASS <=> ~args.arm64 /\ ~SomeRuleMatches(cpu, memory)
            /\ ret.warn = WARN_ARM_RANGE => ret.class = COMPUTE_CLASS_SCALEOUT_ARM
            /\ ret.warn = WARN_NO_CLASS => ret.class = COMPUTE_CLASS_REGULAR
            /\ ~args.arm64 /\ SomeRuleMatches(cpu, memory) => ret.warn = None

\* C12 witness: an arm64 request of ratio 4 just above the cpu limit has been
\* classified ScaleOutArm with the warning
C12_Witness ==
    /\ pc = "returned"
    /\ args = [mCPU |-> 43001, memory |-> 172004, arm64 |-> TRUE]
    /\ ret = [class |-> COMPUTE_CLASS_SCALEOUT_ARM, warn |-> WARN_ARM_RANGE]

\* the CalculatePricing call PopulateWorkloads made for its i-th workload
PricingCall(i) == calls[2 * i]

\* the summed Cost of the workloads priced with the spot flag b whose node
\* the loop of DisplayWorkloadTable has been through
PricedAndCounted(b) ==
    LET Counted(i) == /\ workloads[i].Node_name \in visited
                      /\ PricingCall(i).spot = b
        kept == SelectSeq([i \in DOMAIN workloads |-> i], Counted)
    IN  MSum([j \in DOMAIN kept |-> workloads[kept[j]].Cost])

\* every workload in a node's list was priced with that node's spot flag, and
\* the two totals hold the costs by the flag they were priced with
PricedAsAccumulated ==
    pc \in {"populate", "display", "drawn", "exit"} =>
        /\ Len(calls) = 2 * Len(workloads)
        /\ \A n \in DOMAIN nodes : \A k \in DOMAIN nodes[n].Workloads :
              /\ \E i \in DOMAIN workloads : workloads[i] = nodes[n].Workloads[k]
              /\ \A i \in DOMAIN workloads :
                    workloads[i] = nodes[n].Workloads[k] =>
                        /\ PricingCall(i).fn = "CalculatePricing"
                        /\ PricingCall(i).spot = nodes[n].Spot
        /\ pc \in {"display", "drawn"} =>
              /\ total_cost_spot = PricedAndCounted(TRUE)
              /\ total_cost = MAdd(CLUSTER_FEE, PricedAndCounted(FALSE))

\* a step of PopulateWorkloads leaves the keys of the node map and each
\* node's Name, InstanceType, Region and Spot as they are
PopulateKeepsNodeFields ==
    pc = "populate" =>
        /\ DOMAIN nodes' = DOMAIN nodes
        /\ \A n \in DOMAIN nodes :
              /\ nodes'[n].Name = nodes[n].Name
              /\ nodes'[n].InstanceType = nodes[n].InstanceType
              /\ nodes'[n].Region = nodes[n].Region
              /\ nodes'[n].Spot = nodes[n].Spot

\* C13 (Spec): every workload accumulated into the cluster totals was priced
\* with the spot flag of the node under which DisplayWorkloadTable adds it
\* up, so that the spot total holds only costs computed from spot prices and
\* the non-spot total only costs computed from on-demand prices; and
\* PopulateWorkloads changes no node's Name, InstanceType, Region or Spot,
\* only its Workloads list and Cost.
C13_PricedWithNodeSpotFlag ==
    []PricedAsAccumulated /\ [][PopulateKeepsNodeFields]_vars

\* C13 witness: the table is drawn for a spot node and a non-spot node that
\* each host a workload, the first priced at spot prices
C13_Witness ==
    /\ pc = "drawn"
    /\ \E i, j \in DOMAIN workloads :
          /\ workloads[i].Node_name \in DOMAIN nodes
          /\ workloads[j].Node_name \in DOMAIN nodes
          /\ nodes[workloads[i].Node_name].Spot
          /\ ~nodes[workloads[j].Node_name].Spot
          /\ PricingCall(i).spot
          /\ ~PricingCall(j).spot
    /\ total_cost_spot # Zero
    /\ total_cost # CLUSTER_FEE

====
